---- MODULE Spec2Model ----
(***************************************************************************)
(* The user service of src/main.py: the root route and five request        *)
(* handlers over the "users" collection of a MongoDB database, with the    *)
(* pydantic schema of src/models.py.  Every database call (an await) is    *)
(* one atomic step, so requests handled concurrently interleave between    *)
(* the calls of a handler.  A document is a function from its keys to its  *)
(* values.                                                                 *)
(***************************************************************************)
EXTENDS Integers, FiniteSets, Sequences, Bags, TLC

\* ----------------------------------------------------------------- bounds
\* Documents ever inserted (ObjectIds handed out) in a behaviour.
MaxInserts == 2

\* Handlers that can be suspended between their two database calls at the
\* same time.  A handler with one call runs between them at any time.
MaxSuspended == 1

\* ------------------------------------------------------------ the schema
\* Python's None, as stored (BSON null) and as returned.
None == "<None>"

Gender == {"male", "female"}

Role == {"admin", "user", "student", "teacher"}

UserFields ==
    {"first_name", "last_name", "middle_name", "gender", "email_address",
     "phone_number", "roles"}

\* The fields of User without a default.
RequiredFields == UserFields \ {"middle_name"}

UpdateFields == {"other_names", "age"}

\* A User whose roles are not checked against Role.
ValidUserRolesUnchecked(body) ==
    /\ RequiredFields \subseteq DOMAIN body
    /\ body.gender \in Gender

\* User(**body): every required field is there, gender is a Gender and every
\* element of roles is a Role.
ValidUser(body) ==
    /\ RequiredFields \subseteq DOMAIN body
    /\ body.gender \in Gender
    /\ \A i \in DOMAIN body.roles : body.roles[i] \in Role

\* A dump that loses the roles.
ModelDumpWithoutRoles(body) ==
    [f \in UserFields |->
        IF f = "roles" THEN <<>>
        ELSE IF f \in DOMAIN body THEN body[f] ELSE None]

\* user.model_dump(): every field of User, a field not given at its default.
ModelDump(body) ==
    [f \in UserFields |-> IF f \in DOMAIN body THEN body[f] ELSE None]

\* model_dump() without exclude_unset: every field of the DTO, an unset one
\* at its default, None.
UpdateDumpWithUnset(body) ==
    [f \in UpdateFields |-> IF f \in DOMAIN body THEN body[f] ELSE None]

\* UpdateUserDTO(**body).model_dump(exclude_unset=True): the fields of the
\* DTO that the body sets, and no other.
UpdateDump(body) ==
    [f \in (DOMAIN body \cap UpdateFields) |-> body[f]]

\* response_model=User: the returned document serialised through User, which
\* keeps the fields of User and drops _id and any other key.
ResponseUser(doc) ==
    [f \in UserFields |-> IF f \in DOMAIN doc THEN doc[f] ELSE None]

\* ------------------------------------------------------ the request bodies
Ann ==
    [first_name |-> "Ann", last_name |-> "Lee", gender |-> "female",
     email_address |-> "ann@x.com", phone_number |-> "555",
     roles |-> <<"student">>]

\* A second person registered under Ann's address.
Bea ==
    [first_name |-> "Bea", last_name |-> "Lee", middle_name |-> "May",
     gender |-> "female", email_address |-> "ann@x.com",
     phone_number |-> "556", roles |-> <<"admin", "teacher">>]

Bob ==
    [first_name |-> "Bob", last_name |-> "Ray", gender |-> "male",
     email_address |-> "bob@x.com", phone_number |-> "557",
     roles |-> <<"user">>]

BadGender == [Ann EXCEPT !.gender = "other"]

BadRole == [Bob EXCEPT !.roles = <<"user", "guest">>]

NoPhone ==
    [first_name |-> "Cy", last_name |-> "Orr", gender |-> "male",
     email_address |-> "cy@x.com", roles |-> <<"user">>]

UserBodies == {Ann, Bea, Bob, BadGender, BadRole, NoPhone}

Emails == {"ann@x.com", "bob@x.com"}

EmptyBody == [f \in {} |-> 0]

UpdateBodies ==
    {EmptyBody,
     [age |-> 30],
     [other_names |-> <<"Nan">>],
     [other_names |-> <<"Nan">>, age |-> 30]}

\* ------------------------------------------------------------- the driver
\* insert_one(doc): the collection afterwards, with the document stored under
\* a fresh _id.  Nothing is looked up: an address may be stored twice.
InsertOne(coll, doc, id) ==
    coll \cup
        {[f \in (DOMAIN doc \cup {"_id"}) |-> IF f = "_id" THEN id ELSE doc[f]]}

\* The documents a {"email_address": email} filter matches.
MatchEmail(coll, email) == {d \in coll : d.email_address = email}

\* The documents a {"_id": id} filter matches.
MatchId(coll, id) == {d \in coll : d["_id"] = id}

\* {"$set": patch} applied to a document: the keys of the patch are set, every
\* other key is kept.
ApplySet(doc, patch) ==
    [f \in (DOMAIN doc \cup DOMAIN patch) |->
        IF f \in DOMAIN patch THEN patch[f] ELSE doc[f]]

\* find_one(filter), given the documents the filter matches: None (no
\* document) when there is none, else the first in the store's natural
\* order, which the driver does not fix: any of them.
FindOne(matches) ==
    IF matches = {} THEN {{}} ELSE {{d} : d \in matches}

\* to_list(1): at most one document.
FindAtMostOne(coll) == IF coll = {} THEN {} ELSE {CHOOSE d \in coll : TRUE}

\* find().to_list(None): every document of the collection.
Find(coll) == coll

\* update_one whose result counts the matched document, modified or not
\* (matched_count read as modified_count).
UpdateOneMatchedCount(coll, email, patch) ==
    IF MatchEmail(coll, email) = {}
    THEN {[coll |-> coll, modified_count |-> 0]}
    ELSE {[coll |-> (coll \ {d}) \cup {ApplySet(d, patch)},
           modified_count |-> 1] : d \in MatchEmail(coll, email)}

\* update_one with upsert=True: a miss inserts the filter with the patch.
UpdateOneUpsert(coll, email, patch) ==
    IF MatchEmail(coll, email) = {}
    THEN {[coll |-> coll \cup {ApplySet([email_address |-> email], patch)},
           modified_count |-> 0]}
    ELSE {[coll |-> (coll \ {d}) \cup {ApplySet(d, patch)},
           modified_count |-> IF ApplySet(d, patch) = d THEN 0 ELSE 1] :
            d \in MatchEmail(coll, email)}

\* update_one({"email_address": email}, {"$set": patch}): the possible
\* outcomes, each the collection afterwards with the UpdateResult's
\* modified_count.  The first match is rewritten; modified_count counts it
\* only when the rewrite changed it.  Nothing is inserted on a miss.  An
\* empty $set is a no-op (MongoDB 5.0 and later, which the Atlas cluster of
\* startup_db_client runs).
UpdateOne(coll, email, patch) ==
    IF MatchEmail(coll, email) = {}
    THEN {[coll |-> coll, modified_count |-> 0]}
    ELSE {[coll |-> (coll \ {d}) \cup {ApplySet(d, patch)},
           modified_count |-> IF ApplySet(d, patch) = d THEN 0 ELSE 1] :
            d \in MatchEmail(coll, email)}

\* delete_many: every match is removed.
DeleteMany(coll, email) ==
    IF MatchEmail(coll, email) = {}
    THEN {[coll |-> coll, deleted_count |-> 0]}
    ELSE {[coll |-> coll \ MatchEmail(coll, email), deleted_count |-> 1]}

\* delete_one({"email_address": email}): the possible outcomes, each the
\* collection afterwards with the DeleteResult's deleted_count.
DeleteOne(coll, email) ==
    IF MatchEmail(coll, email) = {}
    THEN {[coll |-> coll, deleted_count |-> 0]}
    ELSE {[coll |-> coll \ {d}, deleted_count |-> 1] :
            d \in MatchEmail(coll, email)}

\* ----------------------------------------------------- the status mapping
\* insert_user returns inserted_user under response_model=User: None does
\* not serialise as a User, which is a server error.
InsertUserStatus(inserted_user) == IF inserted_user = {} THEN 500 ELSE 200

\* read_user_by_email: 404 when find_one gave None.
ReadUserByEmailStatus(user) == IF user = {} THEN 404 ELSE 200

\* update_user after update_one: 404 when modified_count is 0, else the
\* handler goes on (0: no response yet).
UpdateUserStatus(updated_result) ==
    IF updated_result.modified_count = 0 THEN 404 ELSE 0

\* delete_user_by_email: 404 when deleted_count is 0.
DeleteUserStatus(delete_result) ==
    IF delete_result.deleted_count = 0 THEN 404 ELSE 200

\* ------------------------------------------------------------------ state
VARIABLES
    users,      \* the "users" collection: a set of documents
    nextId,     \* the next ObjectId insert_one hands out
    suspended,  \* the handlers awaiting their second call: a bag of frames
    last        \* the latest step: the database call made and its outcome

vars == <<users, nextId, suspended, last>>

\* The locals of a suspended handler: where it resumes (at), the user it was
\* given, the inserted_id or email_address its next call filters on, and the
\* database calls it has made.
Frame(at, user, inserted_id, email_address, calls) ==
    [at |-> at, user |-> user, inserted_id |-> inserted_id,
     email_address |-> email_address, calls |-> calls]

\* The handler suspends at its await.
Suspend(f) ==
    /\ BagCardinality(suspended) < MaxSuspended
    /\ suspended' = suspended (+) SetToBag({f})

\* The handler resumes and returns.
Return(f) == suspended' = suspended (-) SetToBag({f})

\* The record of a step: the handler, the driver call it made (if any), how
\* many database calls its request has made so far, the collection the call
\* named, the request body, the filter (id, email), the $set document,
\* what the driver returned (found, count) or that it raised, the collection
\* before the step, and the response status when the step ended the request
\* (0 while the request is still running).
Step(handler, call, calls, body, id, email, patch, found, count, raised, status) ==
    [handler |-> handler, call |-> call, calls |-> calls,
     collection |-> IF call = "none" THEN {} ELSE {"users"},
     body |-> body, id |-> id, email |-> email, patch |-> patch,
     found |-> found, count |-> count, raised |-> raised, before |-> users,
     status |-> status]

Init ==
    /\ users = {}
    /\ nextId = 1
    /\ suspended = EmptyBag
    /\ last = [handler |-> "lifespan", call |-> "none", calls |-> 0,
               collection |-> {}, body |-> {}, id |-> 0, email |-> "",
               patch |-> EmptyBody, found |-> {}, count |-> 0,
               raised |-> FALSE, before |-> {}, status |-> 0]

\* POST /api/v1/create-user, up to the second await: the body is validated
\* as a User (422 when it is not one), then insert_one(user.model_dump()).
InsertUser(body) ==
    IF ~ValidUser(body)
    THEN /\ last' = Step("insert_user", "none", 0, {body}, 0, "", EmptyBody,
                         {}, 0, FALSE, 422)
         /\ UNCHANGED <<users, nextId, suspended>>
    ELSE /\ nextId <= MaxInserts
         /\ users' = InsertOne(users, ModelDump(body), nextId)
         /\ nextId' = nextId + 1
         /\ Suspend(Frame("insert_user_find_one", {body}, nextId, "", 1))
         /\ last' = Step("insert_user", "insert_one", 1, {body}, 0, "",
                         EmptyBody, {}, 0, FALSE, 0)

\* A read-back that is tried again while it finds nothing.
InsertUserFindOneRetry(f) ==
    /\ f.at = "insert_user_find_one"
    /\ UNCHANGED <<users, nextId>>
    /\ \E inserted_user \in FindOne(MatchId(users, f.inserted_id)) :
        /\ last' = Step("insert_user", "find_one", f.calls + 1, f.user,
                        f.inserted_id, "", EmptyBody, inserted_user, 0, FALSE,
                        IF inserted_user = {} THEN 0 ELSE 200)
        /\ IF inserted_user = {}
           THEN suspended' = (suspended (-) SetToBag({f}))
                                (+) SetToBag({[f EXCEPT !.calls = @ + 1]})
           ELSE Return(f)

\* insert_user after insert_one: find_one({"_id": result.inserted_id}) and
\* the return of what it found.
InsertUserFindOne(f) ==
    /\ f.at = "insert_user_find_one"
    /\ Return(f)
    /\ UNCHANGED <<users, nextId>>
    /\ \E inserted_user \in FindOne(MatchId(users, f.inserted_id)) :
        last' = Step("insert_user", "find_one", f.calls + 1, f.user,
                     f.inserted_id, "", EmptyBody, inserted_user, 0, FALSE,
                     InsertUserStatus(inserted_user))

\* GET /: a static message, no database call.
Root ==
    /\ last' = Step("root", "none", 0, {}, 0, "", EmptyBody, {}, 0, FALSE, 200)
    /\ UNCHANGED <<users, nextId, suspended>>

\* GET /api/v1/read-all-users: find().to_list(None), returned as it is.
ReadUsers ==
    /\ last' = Step("read_users", "find", 1, {}, 0, "", EmptyBody,
                    Find(users), 0, FALSE, 200)
    /\ UNCHANGED <<users, nextId, suspended>>

\* GET /api/v1/read-user/{email_address}: find_one by email_address.
ReadUserByEmail(email_address) ==
    /\ UNCHANGED <<users, nextId, suspended>>
    /\ \E user \in FindOne(MatchEmail(users, email_address)) :
        last' = Step("read_user_by_email", "find_one", 1, {}, 0,
                     email_address, EmptyBody, user, 0, FALSE,
                     ReadUserByEmailStatus(user))

\* PUT /api/v1/update-user/{email_address}, up to the second await:
\* update_one with the fields the body sets; the handler goes on only when a
\* document was modified.
UpdateUser(email_address, body) ==
    /\ UNCHANGED nextId
    /\ \E updated_result \in UpdateOne(users, email_address, UpdateDump(body)) :
        /\ users' = updated_result.coll
        /\ last' = Step("update_user", "update_one", 1, {body}, 0,
                        email_address, UpdateDump(body), {},
                        updated_result.modified_count, FALSE,
                        UpdateUserStatus(updated_result))
        /\ IF UpdateUserStatus(updated_result) = 404
           THEN UNCHANGED suspended
           ELSE Suspend(Frame("update_user_find_one", {}, 0, email_address, 1))

\* update_user after update_one: find_one by email_address, whose result is
\* dropped, and the return of updated_result.  An UpdateResult does not
\* serialise as a User (response_model=User): the response is a server error.
UpdateUserFindOne(f) ==
    /\ f.at = "update_user_find_one"
    /\ Return(f)
    /\ UNCHANGED <<users, nextId>>
    /\ \E updated_user \in FindOne(MatchEmail(users, f.email_address)) :
        last' = Step("update_user", "find_one", f.calls + 1, {}, 0,
                     f.email_address, EmptyBody, updated_user, 0, FALSE, 500)

\* DELETE /api/v1/delete-user/{email_address}: delete_one by email_address.
DeleteUserByEmail(email_address) ==
    /\ UNCHANGED <<nextId, suspended>>
    /\ \E delete_result \in DeleteOne(users, email_address) :
        /\ users' = delete_result.coll
        /\ last' = Step("delete_user_by_email", "delete_one", 1, {}, 0,
                        email_address, EmptyBody, {},
                        delete_result.deleted_count, FALSE,
                        DeleteUserStatus(delete_result))

Next ==
    \/ \E body \in UserBodies : InsertUser(body)
    \/ \E f \in BagToSet(suspended) : InsertUserFindOne(f)
    \/ Root
    \/ ReadUsers
    \/ \E e \in Emails : ReadUserByEmail(e)
    \/ \E e \in Emails, body \in UpdateBodies : UpdateUser(e, body)
    \/ \E f \in BagToSet(suspended) : UpdateUserFindOne(f)
    \/ \E e \in Emails : DeleteUserByEmail(e)

\* The service with its database reachable.
Spec == Init /\ [][Next]_vars

\* ------------------------------------------------- the database unreachable
\* A driver call that raises: nothing is read or written, the exception
\* leaves the handler (no except clause, no retry) and the request ends in a
\* server error.
InsertUserRaises(body) ==
    /\ ValidUser(body)
    /\ last' = Step("insert_user", "insert_one", 1, {body}, 0, "", EmptyBody,
                    {}, 0, TRUE, 500)
    /\ UNCHANGED <<users, nextId, suspended>>

InsertUserFindOneRaises(f) ==
    /\ f.at = "insert_user_find_one"
    /\ Return(f)
    /\ last' = Step("insert_user", "find_one", f.calls + 1, f.user,
                    f.inserted_id, "", EmptyBody, {}, 0, TRUE, 500)
    /\ UNCHANGED <<users, nextId>>

ReadUsersRaises ==
    /\ last' = Step("read_users", "find", 1, {}, 0, "", EmptyBody, {}, 0,
                    TRUE, 500)
    /\ UNCHANGED <<users, nextId, suspended>>

ReadUserByEmailRaises(email_address) ==
    /\ last' = Step("read_user_by_email", "find_one", 1, {}, 0, email_address,
                    EmptyBody, {}, 0, TRUE, 500)
    /\ UNCHANGED <<users, nextId, suspended>>

UpdateUserRaises(email_address, body) ==
    /\ last' = Step("update_user", "update_one", 1, {body}, 0, email_address,
                    UpdateDump(body), {}, 0, TRUE, 500)
    /\ UNCHANGED <<users, nextId, suspended>>

UpdateUserFindOneRaises(f) ==
    /\ f.at = "update_user_find_one"
    /\ Return(f)
    /\ last' = Step("update_user", "find_one", f.calls + 1, {}, 0,
                    f.email_address, EmptyBody, {}, 0, TRUE, 500)
    /\ UNCHANGED <<users, nextId>>

DeleteUserByEmailRaises(email_address) ==
    /\ last' = Step("delete_user_by_email", "delete_one", 1, {}, 0,
                    email_address, EmptyBody, {}, 0, TRUE, 500)
    /\ UNCHANGED <<users, nextId, suspended>>

NextFaults ==
    \/ Next
    \/ \E body \in UserBodies : InsertUserRaises(body)
    \/ \E f \in BagToSet(suspended) : InsertUserFindOneRaises(f)
    \/ ReadUsersRaises
    \/ \E e \in Emails : ReadUserByEmailRaises(e)
    \/ \E e \in Emails, body \in UpdateBodies : UpdateUserRaises(e, body)
    \/ \E f \in BagToSet(suspended) : UpdateUserFindOneRaises(f)
    \/ \E e \in Emails : DeleteUserByEmailRaises(e)

\* The service with a database that any call may find unreachable.
SpecFaults == Init /\ [][NextFaults]_vars

\* ----------------------------------------------------------------- claims
\* The responses read_user_by_email can give for an address in the current
\* state: the status, and the body serialised through User.
GetByEmail(email) ==
    {[status |-> ReadUserByEmailStatus(user),
      body |-> {ResponseUser(d) : d \in user}] :
        user \in FindOne(MatchEmail(users, email))}

\* The statuses delete_user_by_email can answer for an address in the current
\* state.
DeleteByEmail(email) ==
    {DeleteUserStatus(delete_result) :
        delete_result \in DeleteOne(users, email)}

\* A response body carries the payload u on every field of User (a field the
\* payload leaves out at its default).
EqualsPayload(response, u) ==
    \A f \in UserFields :
        response[f] = IF f \in DOMAIN u THEN u[f] ELSE None

\* The latest step ended a create request with the inserted record returned.
CreateReturned ==
    /\ last.handler = "insert_user"
    /\ last.call = "find_one"
    /\ last.status = 200

\* The latest step is delete-by-email on an address that had a stored record.
DeleteOfStored ==
    /\ last.handler = "delete_user_by_email"
    /\ MatchEmail(last.before, last.email) # {}

\* The latest step is the update_one call of update-by-email.
UpdateCall ==
    /\ last.handler = "update_user"
    /\ last.call = "update_one"

\* Every identifier handed out is still stored: no delete has removed a record.
NothingDeleted ==
    \A id \in 1..(nextId - 1) : MatchId(users, id) # {}

\* C1 as stated: after a create of u has returned, get-by-email on u's address
\* answers 200 with a record equal to u on every User field, whatever else
\* the collection holds.
C1_CreateThenGetReturnsPayload ==
    CreateReturned =>
        \A u \in last.body : \A r \in GetByEmail(u.email_address) :
            /\ r.status = 200
            /\ \A response \in r.body : EqualsPayload(response, u)

\* C1 amended: after a create of u has returned, get-by-email on u's address
\* answers 200 with a record equal to u on every User field, provided no
\* other stored record has u's address.
C1_CreateThenGetReturnsPayloadWhenUnique ==
    CreateReturned =>
        \A u \in last.body :
            Cardinality(MatchEmail(users, u.email_address)) = 1 =>
                \A r \in GetByEmail(u.email_address) :
                    /\ r.status = 200
                    /\ \A response \in r.body : EqualsPayload(response, u)

\* A create of a payload without middle_name has returned, its address is
\* stored once, and another record is stored beside it.
C1_Witness ==
    /\ CreateReturned
    /\ Cardinality(users) = 2
    /\ \E u \in last.body :
        /\ "middle_name" \notin DOMAIN u
        /\ Cardinality(MatchEmail(users, u.email_address)) = 1

\* C2 as stated: delete-by-email on an address with a stored record answers
\* 200 and removes exactly one record, and right afterwards get-by-email and
\* a repeated delete-by-email on that address answer 404.
C2_DeleteThenNotFound ==
    DeleteOfStored =>
        /\ last.status = 200
        /\ \E d \in MatchEmail(last.before, last.email) :
            users = last.before \ {d}
        /\ \A r \in GetByEmail(last.email) : r.status = 404
        /\ \A status \in DeleteByEmail(last.email) : status = 404

\* C2 amended: delete-by-email on an address with a stored record answers 200
\* and removes exactly one record with that address, every other record
\* unchanged; when that was the only record with the address, get-by-email
\* and a repeated delete-by-email on it right afterwards answer 404.
C2_DeleteThenNotFoundWhenUnique ==
    DeleteOfStored =>
        /\ last.status = 200
        /\ \E d \in MatchEmail(last.before, last.email) :
            users = last.before \ {d}
        /\ Cardinality(MatchEmail(last.before, last.email)) = 1 =>
            /\ \A r \in GetByEmail(last.email) : r.status = 404
            /\ \A status \in DeleteByEmail(last.email) : status = 404

\* A delete removed the only record with its address and left another record.
C2_Witness ==
    /\ DeleteOfStored
    /\ Cardinality(MatchEmail(last.before, last.email)) = 1
    /\ users # {}

\* C3 as stated: update-by-email answers 404 exactly when no stored record
\* has the address.
C3_NotFoundIffNoMatch ==
    UpdateCall =>
        (last.status = 404 <=> MatchEmail(last.before, last.email) = {})

\* C3 amended: update-by-email answers 404 exactly when it modified no stored
\* record: always when no record has the address, and also when one has it
\* but the patch changes nothing in the matched record.
C3_NotFoundIffNothingModified ==
    UpdateCall =>
        /\ last.status = 404 <=> users = last.before
        /\ MatchEmail(last.before, last.email) = {} => last.status = 404

\* An update with a non-empty patch matched a record and answered 404.
C3_Witness ==
    /\ UpdateCall
    /\ MatchEmail(last.before, last.email) # {}
    /\ DOMAIN last.patch # {}
    /\ last.status = 404

\* C4: update-by-email on an address no stored record has answers 404 and
\* leaves the collection as it was, for every patch.
C4_UpdateMissLeavesCollection ==
    (UpdateCall /\ MatchEmail(last.before, last.email) = {}) =>
        /\ last.status = 404
        /\ users = last.before

\* An update with a non-empty patch missed in a collection that holds records.
C4_Witness ==
    /\ UpdateCall
    /\ MatchEmail(last.before, last.email) = {}
    /\ last.before # {}
    /\ Cardinality(DOMAIN last.patch) = 2

\* C5: update-by-email whose body sets one field, on an address with a stored
\* record, changes at most that field of one record with the address: its
\* other fields keep their values, the field the body leaves out is neither
\* added nor reset, and every other record is unchanged.
C5_OneFieldPatchTouchesOneField ==
    (UpdateCall /\ MatchEmail(last.before, last.email) # {}) =>
        \A body \in last.body :
            Cardinality(DOMAIN body \cap UpdateFields) = 1 =>
                \/ users = last.before
                \/ \E d \in MatchEmail(last.before, last.email) :
                   \E e \in users :
                    /\ users = (last.before \ {d}) \cup {e}
                    /\ DOMAIN e = DOMAIN d \cup (DOMAIN body \cap UpdateFields)
                    /\ \A f \in DOMAIN d : f \notin DOMAIN body => e[f] = d[f]

\* A one-field update changed a record that already had the other field, with
\* another record stored beside it.
C5_Witness ==
    /\ UpdateCall
    /\ users # last.before
    /\ Cardinality(users) = 2
    /\ \E body \in last.body :
        /\ Cardinality(DOMAIN body \cap UpdateFields) = 1
        /\ \E d \in last.before \ users :
            (UpdateFields \ DOMAIN body) \subseteq DOMAIN d

\* C6 as stated: no handler makes more than one database call per request.
C6_AtMostOneCall ==
    /\ last.calls <= 1
    /\ last.collection \subseteq {"users"}

\* C6 amended: every handler touches only the users collection and makes at
\* most two database calls per request: list, get-by-email and
\* delete-by-email make one; create makes two, insert_one and the read-back;
\* update makes update_one and, when that modified a record, a find_one.
C6_AtMostTwoCalls ==
    /\ last.calls <= 2
    /\ last.collection \subseteq {"users"}
    /\ last.handler \in
            {"read_users", "read_user_by_email", "delete_user_by_email"} =>
                last.calls = 1
    /\ (last.handler = "insert_user" /\ last.status \in {200, 500}) =>
            last.calls = 2
    /\ (last.handler = "update_user" /\ last.status = 404) => last.calls = 1

\* A create request has returned after its second database call.
C6_Witness ==
    /\ CreateReturned
    /\ last.calls = 2

\* C7: a create request whose gender is no Gender, or whose roles hold an
\* element that is no Role, fails validation (422, no database call) and the
\* collection is as before.
C7_BadEnumCreatesNothing ==
    last.handler = "insert_user" =>
        \A body \in last.body :
            (\/ body.gender \notin Gender
             \/ \E i \in DOMAIN body.roles : body.roles[i] \notin Role) =>
                /\ last.status = 422
                /\ last.call = "none"
                /\ users = last.before

\* A create with a role outside Role was refused while records are stored.
C7_Witness ==
    /\ last.handler = "insert_user"
    /\ last.status = 422
    /\ users # {}
    /\ \E body \in last.body :
        \E i \in DOMAIN body.roles : body.roles[i] \notin Role

\* C8: list answers 200 with exactly the stored records and leaves the
\* collection as it was: none before any create, and N after N creates when
\* nothing was deleted.
C8_ListReturnsStored ==
    last.handler = "read_users" =>
        /\ last.status = 200
        /\ last.found = users
        /\ users = last.before
        /\ nextId = 1 => last.found = {}
        /\ NothingDeleted => Cardinality(last.found) = nextId - 1

\* A list after two creates with distinct addresses and no delete.
C8_Witness ==
    /\ last.handler = "read_users"
    /\ nextId = 3
    /\ NothingDeleted
    /\ Cardinality(last.found) = 2
    /\ \A d \in last.found : \A e \in last.found :
        d # e => d.email_address # e.email_address

\* C9: the read-back of a create request never finds the inserted record
\* absent, so the request answers 200 with it.
C9_ReadBackFindsInserted ==
    (last.handler = "insert_user" /\ last.call = "find_one") =>
        /\ last.found # {}
        /\ last.status = 200

\* C10: a request that a database call ends with a storage error answers a
\* server error and has stored nothing: the record of a create request that
\* ends so is not in the collection.
C10_StorageErrorStoresNothing ==
    last.raised =>
        /\ last.status = 500
        /\ last.handler = "insert_user" => MatchId(users, last.id) = {}
====
